---------------------------- MODULE Spec2Model ----------------------------
(***************************************************************************)
(* BtBmsDisplay: the JBD/Overkill BMS notification delegate (frame         *)
(* reassembly and decoding), the single-track session of                   *)
(* test_single_left.py, the alternating DualBMSService and the             *)
(* OverkillBMSReader with its API server.                                  *)
(*                                                                         *)
(* Representation: a bytes object is a sequence of naturals 0..255; a      *)
(* float obtained as raw/100.0 or raw/1000.0 is kept as its raw integer    *)
(* (hundredths of a unit, millivolts); datetime.now() is the logical       *)
(* clock `now`; None is the string "None" or the number 0 as noted.        *)
(***************************************************************************)
EXTENDS Integers, Sequences, FiniteSets, TLC

VARIABLES
    now,              \* logical clock read by datetime.now()
    sent,             \* response frames the device sends (environment)
    chunks,           \* the notification chunks the transport cuts them into
    fed,              \* how many of the chunks have been delivered
    partial_message,  \* JBDBMSDelegate.partial_message
    battery_data,     \* JBDBMSDelegate.battery_data
    processed,        \* arguments of the process_bms_data calls made so far
    running,          \* DualBMSService.running
    started,          \* how many polling threads start_service has started
    svc_data,         \* DualBMSService.battery_data, per track
    poll,             \* per polling thread: its place in poll_bms_data and its reader
    rd,               \* the JBDBMSReader of test_single_left.py and its place in read_data
    attempt,          \* test_left_bms_repeatedly: the attempt number
    reader_ready,     \* bms_api_server: the global bms_reader is set
    ok_running,       \* OverkillBMSReader.running
    peripherals,      \* OverkillBMSReader.peripherals: track -> link id, 0 when absent
    delegates,        \* OverkillBMSReader.delegates: track -> delegate id, 0 when absent
    dlg,              \* the BMSDelegate objects, by the id of their peripheral
    links,            \* the BLE links opened by Peripheral() and not yet disconnect()ed
    devices,          \* the tracks whose BMS is powered and in range
    nlinks,           \* how many Peripheral objects were created
    last_data,        \* OverkillBMSReader.last_data, per track
    connection_status,\* OverkillBMSReader.connection_status, per track
    thr,              \* per thread: its place in its routine and in the method it runs
    requests,         \* how many HTTP requests were accepted
    api_resp,         \* what the last GET /api/batteries answered
    consistent,       \* per track: the (snapshot, last_update) pairs held between updates
    writers           \* per track: the threads that have written its connection_status

delegVars == <<sent, chunks, fed, partial_message, battery_data, processed>>

dualVars == <<running, started, svc_data, poll>>

sessVars == <<rd, attempt>>

okVars == <<reader_ready, ok_running, peripherals, delegates, dlg, links, devices, nlinks,
            last_data, connection_status, thr, requests, api_resp, consistent, writers>>

vars == <<now, delegVars, dualVars, sessVars, okVars>>

Tracks == {"left", "right"}

(***************************************************************************)
(* Bytes and hex text                                                      *)
(***************************************************************************)
\* binascii.hexlify(data).decode(): two hex digits per byte, high digit first
Hexlify(data) ==
    [k \in 1..(2 * Len(data)) |->
        IF k % 2 = 1 THEN data[(k + 1) \div 2] \div 16
                     ELSE data[k \div 2] % 16]

\* str.find(pat) != -1 on hex text: pat occurs at some character offset
HexFind(hex, pat) ==
    \E o \in 0..(Len(hex) - Len(pat)) :
        \A k \in 1..Len(pat) : hex[o + k] = pat[k]

\* the hex texts 'dd03' and 'dd04'
HexDD03 == <<13, 13, 0, 3>>
HexDD04 == <<13, 13, 0, 4>>

\* the two bytes in little-endian order
UnpackH_LittleEndian(data, off) == data[off + 2] * 256 + data[off + 1]

\* struct.unpack_from('>H', data, off): big-endian unsigned 16 bit at byte offset off
UnpackH(data, off) == data[off + 1] * 256 + data[off + 2]

\* struct.unpack_from('>h', data, off): big-endian signed 16 bit
Unpackh(data, off) ==
    IF UnpackH(data, off) >= 32768 THEN UnpackH(data, off) - 65536
                                   ELSE UnpackH(data, off)

\* [f(c) for c in s if c > 0]
RECURSIVE FilterPositive(_)
FilterPositive(s) ==
    IF s = <<>> THEN <<>>
    ELSE IF Head(s) > 0 THEN <<Head(s)>> \o FilterPositive(Tail(s))
         ELSE FilterPositive(Tail(s))

(***************************************************************************)
(* BatteryData of dual_bms_service.py                                      *)
(***************************************************************************)
\* BatteryData(track=track): voltage etc. 0, cell_voltages [], last_update None (0)
NewBatteryData ==
    [voltage |-> 0, current |-> 0, remaining_capacity |-> 0,
     total_capacity |-> 0, soc |-> 0, cycles |-> 0,
     cell_voltages |-> <<>>, last_update |-> 0,
     connection_status |-> "disconnected"]

(***************************************************************************)
(* JBDBMSDelegate                                                          *)
(***************************************************************************)
\* remain / capacity * 100 if capacity > 0 else 0, kept in hundredths of a percent
ChargeLevel(remain, capacity) ==
    IF capacity > 0 THEN (remain * 10000) \div capacity ELSE 0

\* parse_pack_info: fields at byte offsets 4.., nothing for fewer than 20 bytes
ParsePackInfo(bd, data, t) ==
    IF Len(data) < 20 THEN bd
    ELSE [bd EXCEPT
            !.voltage = UnpackH(data, 4),
            !.current = Unpackh(data, 6),
            !.remaining_capacity = UnpackH(data, 8),
            !.total_capacity = UnpackH(data, 10),
            !.soc = ChargeLevel(UnpackH(data, 8), UnpackH(data, 10)),
            !.cycles = UnpackH(data, 12),
            !.last_update = t,
            !.connection_status = "connected"]

\* parse_cell_voltages: eight cells at byte offsets 4.., zero cells dropped
ParseCellVoltages(bd, data, t) ==
    IF Len(data) < 20 THEN bd
    ELSE [bd EXCEPT
            !.cell_voltages =
                FilterPositive([k \in 1..8 |-> UnpackH(data, 4 + 2 * (k - 1))]),
            !.last_update = t]

\* process_bms_data: the decoder is chosen by searching the hex text
ProcessBmsData(bd, data, t) ==
    IF HexFind(Hexlify(data), HexDD03) THEN ParsePackInfo(bd, data, t)
    ELSE IF HexFind(Hexlify(data), HexDD04) THEN ParseCellVoltages(bd, data, t)
    ELSE bd

\* the handshake byte is handled as any other data
NotificationBranch_NoHandshake(partial, data) ==
    IF Len(data) >= 1 /\ data[1] = 221 /\ Len(data) < 20 THEN "partial"
    ELSE IF partial # <<>> THEN "combined"
    ELSE "direct"

\* handleNotification: "handshake", "partial", "combined" or "direct"
NotificationBranch(partial, data) ==
    IF data = <<0>> THEN "handshake"
    ELSE IF Len(data) >= 1 /\ data[1] = 221 /\ Len(data) < 20 THEN "partial"
    ELSE IF partial # <<>> THEN "combined"
    ELSE "direct"

\* handleNotification as a function of the delegate's state and the chunk
HandleNotificationResult(partial, bd, done, data, t) ==
    LET br == NotificationBranch(partial, data) IN
    CASE br = "handshake" ->
            [partial |-> partial, bd |-> bd, done |-> done]
      [] br = "partial" ->
            [partial |-> data, bd |-> bd, done |-> done]
      [] br = "combined" ->
            [partial |-> <<>>,
             bd |-> ProcessBmsData(bd, partial \o data, t),
             done |-> Append(done, partial \o data)]
      [] OTHER ->
            [partial |-> partial,
             bd |-> ProcessBmsData(bd, data, t),
             done |-> Append(done, data)]

(***************************************************************************)
(* Device side: response frames of the wire protocol                       *)
(* [0xDD, cmd, status, length, payload.., checksumHi, checksumLo, 0x77]    *)
(***************************************************************************)
RECURSIVE SumBytes(_)
SumBytes(s) == IF s = <<>> THEN 0 ELSE Head(s) + SumBytes(Tail(s))

\* 0x10000 - sum(status, length, payload) masked to 16 bits
FrameChecksum(body) == (65536 - SumBytes(body)) % 65536

BytesOfU16(v) == <<v \div 256, v % 256>>

ResponseFrame(cmd, payload) ==
    <<221, cmd>> \o <<0, Len(payload)>> \o payload
        \o BytesOfU16(FrameChecksum(<<0, Len(payload)>> \o payload)) \o <<119>>

RECURSIVE CellPayload(_)
CellPayload(cells) ==
    IF cells = <<>> THEN <<>>
    ELSE BytesOfU16(Head(cells)) \o CellPayload(Tail(cells))

\* an 8-cell reply (23 bytes), a 4-cell reply (15 bytes), a pack-info reply (34 bytes)
CellFrame8 == ResponseFrame(4, CellPayload(<<3301, 3302, 3303, 3304, 3305, 3306, 3307, 3308>>))
CellFrame4 == ResponseFrame(4, CellPayload(<<3301, 3302, 3303, 3304>>))
PackFrame ==
    ResponseFrame(3, CellPayload(<<1333, 65336, 6693, 8531, 7, 11023, 0, 0, 0>>)
                        \o <<33, 78, 3, 4, 2>> \o CellPayload(<<2981, 2975>>))

SampleFrames == {CellFrame8, CellFrame4, PackFrame}

\* a frame cut into two non-empty chunks after byte k
SplitAt(f, k) == <<SubSeq(f, 1, k), SubSeq(f, k + 1, Len(f))>>

InitClock == now = 1

\* JBDBMSReader.__init__ plus the locals of read_data:
\*   i: index of the command in hand (0: 0x03, 1: 0x04); slices: the
\*   waitForNotifications(0.5) calls of the current wait that timed out;
\*   writes: the command codes passed to writeCharacteristic(21, ..) in this
\*   read_data; reconnects: the reconnect() calls of this read_data;
\*   exc: the exception the last transport call raised; result: read_data's
\*   return value; got: waitForNotifications returned True in the wait loop
\*   of the current command
NewReader ==
    [pc |-> "new", connected |-> FALSE, peripheral |-> FALSE, delegate |-> FALSE,
     i |-> 0, slices |-> 0, got |-> FALSE, writes |-> <<>>, reconnects |-> 0,
     exc |-> "none", result |-> "None"]

InitSessionIdle ==
    /\ rd = NewReader
    /\ attempt = 0

\* every delegate is made for the left track
NewDelegate_LeftOnly(track) ==
    [track |-> "left", cell_voltages |-> <<>>,
     pack_info |-> [some |-> FALSE, amps |-> 0, charge_level |-> 0, temp1 |-> 0]]

\* bms_reader.py, BMSDelegate.__init__: cell_voltages = [], pack_info = {}
NewDelegate(track) ==
    [track |-> track, cell_voltages |-> <<>>,
     pack_info |-> [some |-> FALSE, amps |-> 0, charge_level |-> 0, temp1 |-> 0]]

\* the Peripheral objects the model lets the program create
MaxLinks == 3
LinkIds == 1..MaxLinks

\* the HTTP requests the model lets the event loop accept
MaxRequests == 2

\* the datetime.now() values the model lets the reader stamp statuses with
MaxStamps == 4

\* "reader": the thread running run_bms_reader; "http": the event loop running
\* the request handlers; "caller": a client calling the reader's methods one
\* after another, as main() of bms_reader.py does
OkThreads == {"reader", "http", "caller"}

\* BMSStatus(False, mac, track): last_update None (0), error_message None
NewStatus == [connected |-> FALSE, last_update |-> 0, error_message |-> "None"]

\* a thread outside any method: op is the method in progress, k its track,
\* cpc the place in it, per its local peripheral, ret its return value;
\* opened, cccd_ok: what the transport calls of connect_to_device did;
\* res_left: connect_all_devices' results['left']; again: the call is a
\* disconnect_device that directly follows a disconnect_device of the same track;
\* cmds: the command codes read_bms_data has written in this call
IdleThread ==
    [pc |-> "off", op |-> "none", k |-> "left", cpc |-> "none", per |-> 0,
     ret |-> FALSE, opened |-> FALSE, cccd_ok |-> FALSE, res_left |-> FALSE,
     again |-> FALSE, cmds |-> <<>>]

NoResponse == [some |-> FALSE, batteries |-> [t \in Tracks |-> <<>>],
               last_update |-> [t \in Tracks |-> 0], with_status |-> FALSE]

InitOverkillIdle ==
    /\ reader_ready = FALSE
    /\ ok_running = FALSE
    /\ peripherals = [t \in Tracks |-> 0]
    /\ delegates = [t \in Tracks |-> 0]
    /\ dlg = [n \in LinkIds |-> NewDelegate("left")]
    /\ links = {}
    /\ nlinks = 0
    /\ last_data = [t \in Tracks |-> <<>>]
    /\ connection_status = [t \in Tracks |-> NewStatus]
    /\ thr = [t \in OkThreads |-> IdleThread]
    /\ requests = 0
    /\ api_resp = NoResponse
    /\ consistent = [t \in Tracks |-> {<<(<<>>), 0>>}]
    /\ writers = [t \in Tracks |-> {}]

\* the API server is not running; both packs are powered
InitOverkillOff == InitOverkillIdle /\ devices = Tracks

InitDelegate ==
    /\ partial_message = <<>>
    /\ battery_data = NewBatteryData
    /\ processed = <<>>

(***************************************************************************)
(* JBDBMSReader of dual_bms_service.py: write a command, read the          *)
(* characteristic, decode.  A response is "raise" (the write or the read   *)
(* raised) or the bytes characteristic.read() returned.                    *)
(***************************************************************************)
\* Python's None, and a value that is not None, as records told apart by .some
None == [some |-> FALSE]

\* _send_cmd raised (BLE write or read error), or returned these bytes
Raise == [raised |-> TRUE, data |-> <<>>]
Bytes(d) == [raised |-> FALSE, data |-> d]

\* not (len(data) < 4 or data[0] != 0xDD or data[1] != 0x00 or data[-1] != 0x77)
ValidResponseFormat(data) ==
    /\ Len(data) >= 4
    /\ data[1] = 221
    /\ data[2] = 0
    /\ data[Len(data)] = 119

\* get_basic_info: "None" when _send_cmd raises, the format is invalid or an
\* index is out of range; the fields sit at byte offsets 3, 5, 7, 9 and soc at 20
GetBasicInfo(resp) ==
    IF resp.raised THEN None
    ELSE IF ~ValidResponseFormat(resp.data) THEN None
    ELSE IF Len(resp.data) < 11 THEN None
    ELSE [some |-> TRUE,
          voltage |-> UnpackH(resp.data, 3),
          current |-> Unpackh(resp.data, 5),
          remaining_capacity |-> UnpackH(resp.data, 7),
          nominal_capacity |-> UnpackH(resp.data, 9),
          soc |-> IF 20 < Len(resp.data) THEN resp.data[21] * 100 ELSE 0]

Min(a, b) == IF a < b THEN a ELSE b

\* get_cell_voltages: [] when _send_cmd raises or the format is invalid, else
\* len_ // 2 cells from byte offset 3 while pos + 1 < len(data)
GetCellVoltages(resp) ==
    IF resp.raised THEN <<>>
    ELSE IF ~ValidResponseFormat(resp.data) THEN <<>>
    ELSE [k \in 1..Min(resp.data[3] \div 2, (Len(resp.data) - 3) \div 2) |->
             UnpackH(resp.data, 3 + 2 * (k - 1))]

\* get_all_data after both commands: None without basic info
GetAllData(basic, cells, t) ==
    IF ~basic.some THEN None
    ELSE [some |-> TRUE, voltage |-> basic.voltage, current |-> basic.current,
          soc |-> basic.soc,
          remaining_capacity |-> basic.remaining_capacity,
          nominal_capacity |-> basic.nominal_capacity,
          cell_voltages |-> cells, timestamp |-> t]

(***************************************************************************)
(* DualBMSService                                                          *)
(***************************************************************************)
MaxThreads == 2
Threads == 1..MaxThreads

\* the last publish the bounded clock allows
MaxClock == 3

\* a slip that would start from a fresh BatteryData when there is no data
StoreData_ResetOnNone(old, data) ==
    IF data.some
    THEN [voltage |-> data.voltage, current |-> data.current,
          remaining_capacity |-> data.remaining_capacity,
          total_capacity |-> data.nominal_capacity,
          soc |-> data.soc, cycles |-> 0,
          cell_voltages |-> data.cell_voltages,
          last_update |-> data.timestamp,
          connection_status |-> "connected"]
    ELSE [NewBatteryData EXCEPT !.connection_status = "no_data"]

\* without data the cell voltages are dropped
StoreData_CellsDropped(old, data) ==
    IF data.some THEN StoreData_ResetOnNone(old, data)
    ELSE [old EXCEPT !.connection_status = "no_data", !.cell_voltages = <<>>]

\* poll_single_bms, lines 507-520: a new BatteryData for data, else only the status
StoreData(old, data) ==
    IF data.some
    THEN [voltage |-> data.voltage, current |-> data.current,
          remaining_capacity |-> data.remaining_capacity,
          total_capacity |-> data.nominal_capacity,
          soc |-> data.soc, cycles |-> 0,
          cell_voltages |-> data.cell_voltages,
          last_update |-> data.timestamp,
          connection_status |-> "connected"]
    ELSE [old EXCEPT !.connection_status = "no_data"]

\* the telemetry fields of a BatteryData (all but connection_status)
Telemetry(bd) ==
    [voltage |-> bd.voltage, current |-> bd.current,
     remaining_capacity |-> bd.remaining_capacity,
     total_capacity |-> bd.total_capacity, soc |-> bd.soc, cycles |-> bd.cycles,
     cell_voltages |-> bd.cell_voltages, last_update |-> bd.last_update]

\* the request with the checksum taken over the length byte and the payload
CommandFrame_LengthOnly(cmd) ==
    <<221, 165, cmd, 0>> \o BytesOfU16(FrameChecksum(<<0>>)) \o <<119>>

\* get_basic_info, line 261, and get_cell_voltages, line 319: cmd = [0xDD, 0xA5, ...]
CommandFrame(cmd) ==
    IF cmd = 3 THEN <<221, 165, 3, 0, 255, 253, 119>>
               ELSE <<221, 165, 4, 0, 255, 252, 119>>

\* a thread that was not started, and the locals of one pass of poll_single_bms;
\* prev: the track of the thread's previous poll_single_bms; open: the
\* peripheral connections of the thread's readers that are open; cmd: the
\* request last handed to _send_cmd in this pass
NoThread ==
    [pc |-> "none", track |-> "left", link |-> FALSE, connected |-> FALSE,
     basic |-> None, cells |-> <<>>, raised |-> 0,
     basic_resp |-> Raise, cells_resp |-> Raise, prev |-> "none", open |-> 0,
     cmd |-> <<>>]

\* the locals of a new pass for a track
NewPass(r, track) ==
    [NoThread EXCEPT !.pc = "connect", !.track = track, !.prev = r.prev, !.open = r.open]

\* the connection is left open
ReaderDisconnect_LinkKept(r) == [r EXCEPT !.connected = FALSE]

\* JBDBMSReader.disconnect: peripheral.disconnect(), errors swallowed (a close
\* that raises finds the link already gone), connected = False
ReaderDisconnect(r) ==
    [r EXCEPT !.connected = FALSE, !.link = FALSE,
              !.open = IF r.link THEN @ - 1 ELSE @]

InitDualIdle ==
    /\ running = FALSE
    /\ started = 0
    /\ svc_data = [t \in Tracks |-> NewBatteryData]
    /\ poll = [th \in Threads |-> NoThread]

\* what characteristic.read() may hand back for the basic-info command, in the
\* layout get_basic_info indexes: [0xDD, 0x00, len, payload.., ckHi, ckLo, 0x77]
ReadLayout(payload) ==
    <<221, 0, Len(payload)>> \o payload
        \o BytesOfU16(FrameChecksum(<<0, Len(payload)>> \o payload)) \o <<119>>

PackPayload ==
    CellPayload(<<1333, 65336, 6693, 8531, 7, 11023, 0, 0, 0>>)
        \o <<33, 78, 3, 4, 2>> \o CellPayload(<<2981, 2975>>)

BasicGood == ReadLayout(PackPayload)
BasicBadTrailer == [BasicGood EXCEPT ![Len(BasicGood)] = 0]
\* one payload byte flipped, checksum bytes left as they were
BasicFlipped == [BasicGood EXCEPT ![5] = 255 - BasicGood[5]]
CellsGood == ReadLayout(CellPayload(<<3301, 3302, 3303, 3304>>))
CellsBadHeader == [CellsGood EXCEPT ![1] = 0]

\* the answers to the two commands; <<>> is an empty read (the device sent nothing)
BasicResponses ==
    {Raise} \cup {Bytes(d) : d \in {<<>>, BasicGood, BasicBadTrailer, BasicFlipped, PackFrame}}
\* the last cell reply: four cells followed by four zero readings
CellResponses ==
    {Raise} \cup {Bytes(d) : d \in {CellsGood, CellsBadHeader, CellFrame4,
        ReadLayout(CellPayload(<<3301, 3302, 3303, 3304, 0, 0, 0, 0>>))}}

\* start_service: only when not running; starts one more polling thread
start_service ==
    /\ ~running
    /\ started < MaxThreads
    /\ running' = TRUE
    /\ started' = started + 1
    /\ poll' = [poll EXCEPT ![started + 1] = [NoThread EXCEPT !.pc = "top"]]
    /\ UNCHANGED <<svc_data, now>>

\* stop_service: running = False; the join returns after at most 10 s
stop_service ==
    /\ running' = FALSE
    /\ UNCHANGED <<started, svc_data, poll, now>>

\* poll_bms_data, line 481: while self.running
PollTop(th) ==
    /\ poll[th].pc = "top"
    /\ poll' = [poll EXCEPT ![th] =
                    IF running
                    THEN NewPass(@, "left")
                    ELSE [@ EXCEPT !.pc = "exit"]]
    /\ UNCHANGED <<running, started, svc_data, now>>

\* poll_single_bms, lines 502-505 and 521-523: a new reader, reader.connect().
\* "no_link": Peripheral() raised; "no_service": the link is open and the
\* service or characteristic lookup raised; "ok"
PollConnect(th) ==
    /\ poll[th].pc = "connect"
    /\ \E outcome \in {"ok", "no_link", "no_service"} :
        LET t == poll[th].track IN
        /\ poll' = [poll EXCEPT ![th] =
                [@ EXCEPT !.link = (outcome # "no_link"),
                          !.open = IF outcome # "no_link" THEN @ + 1 ELSE @,
                          !.connected = (outcome = "ok"),
                          !.pc = IF outcome = "ok" THEN "basic" ELSE "finally"]]
        /\ svc_data' = IF outcome = "ok" THEN svc_data
                       ELSE [svc_data EXCEPT ![t].connection_status = "connection_failed"]
    /\ UNCHANGED <<running, started, now>>

\* get_all_data, line 352: basic_info = self.get_basic_info()
PollBasicInfo(th) ==
    /\ poll[th].pc = "basic"
    /\ \E resp \in BasicResponses :
        poll' = [poll EXCEPT ![th] =
                [@ EXCEPT !.basic = GetBasicInfo(resp),
                          !.cmd = CommandFrame(3),
                          !.basic_resp = resp,
                          !.raised = IF resp.raised THEN @ + 1 ELSE @,
                          !.pc = "cells"]]
    /\ UNCHANGED <<running, started, svc_data, now>>

\* get_all_data, line 353: cell_voltages = self.get_cell_voltages()
PollCellVoltages(th) ==
    /\ poll[th].pc = "cells"
    /\ \E resp \in CellResponses :
        poll' = [poll EXCEPT ![th] =
                [@ EXCEPT !.cells = GetCellVoltages(resp),
                          !.cmd = CommandFrame(4),
                          !.cells_resp = resp,
                          !.raised = IF resp.raised THEN @ + 1 ELSE @,
                          !.pc = "store"]]
    /\ UNCHANGED <<running, started, svc_data, now>>

\* get_all_data, lines 355-398, and poll_single_bms, lines 507-520
PollStore(th) ==
    /\ poll[th].pc = "store"
    /\ LET t == poll[th].track
           data == GetAllData(poll[th].basic, poll[th].cells, now) IN
        /\ data.some => now < MaxClock
        /\ svc_data' = [svc_data EXCEPT ![t] = StoreData(@, data)]
        /\ now' = IF data.some THEN now + 1 ELSE now
    /\ poll' = [poll EXCEPT ![th].pc = "finally"]
    /\ UNCHANGED <<running, started>>

\* poll_single_bms, line 529: finally reader.disconnect()
PollDisconnect(th) ==
    /\ poll[th].pc = "finally"
    /\ poll' = [poll EXCEPT ![th] =
                    [ReaderDisconnect(@) EXCEPT !.prev = poll[th].track, !.pc = "check"]]
    /\ UNCHANGED <<running, started, svc_data, now>>

\* poll_bms_data, lines 485 and 494: if not self.running: break
PollCheck(th) ==
    /\ poll[th].pc = "check"
    /\ poll' = [poll EXCEPT ![th].pc = IF running THEN "sleep" ELSE "exit"]
    /\ UNCHANGED <<running, started, svc_data, now>>

\* poll_bms_data, lines 489 and 498: time.sleep returns
PollSleep(th) ==
    /\ poll[th].pc = "sleep"
    /\ poll' = [poll EXCEPT ![th] =
                    IF @.track = "left"
                    THEN NewPass(@, "right")
                    ELSE [@ EXCEPT !.pc = "top"]]
    /\ UNCHANGED <<running, started, svc_data, now>>

\* __main__: start_service once, stop_service on KeyboardInterrupt
MainStart == started = 0 /\ start_service
MainStop == started = 1 /\ running /\ stop_service

InitDual ==
    /\ InitClock
    /\ InitDelegate
    /\ sent = <<>> /\ chunks = <<>> /\ fed = 0
    /\ InitDualIdle
    /\ InitSessionIdle
    /\ InitOverkillOff

NextDual ==
    \/ (MainStart /\ UNCHANGED <<delegVars, sessVars, okVars>>)
    \/ (MainStop /\ UNCHANGED <<delegVars, sessVars, okVars>>)
    \/ \E th \in Threads : PollTop(th) /\ UNCHANGED <<delegVars, sessVars, okVars>>
    \/ \E th \in Threads : PollConnect(th) /\ UNCHANGED <<delegVars, sessVars, okVars>>
    \/ \E th \in Threads : PollBasicInfo(th) /\ UNCHANGED <<delegVars, sessVars, okVars>>
    \/ \E th \in Threads : PollCellVoltages(th) /\ UNCHANGED <<delegVars, sessVars, okVars>>
    \/ \E th \in Threads : PollStore(th) /\ UNCHANGED <<delegVars, sessVars, okVars>>
    \/ \E th \in Threads : PollDisconnect(th) /\ UNCHANGED <<delegVars, sessVars, okVars>>
    \/ \E th \in Threads : PollCheck(th) /\ UNCHANGED <<delegVars, sessVars, okVars>>
    \/ \E th \in Threads : PollSleep(th) /\ UNCHANGED <<delegVars, sessVars, okVars>>

SpecDual == InitDual /\ [][NextDual]_vars

\* thread th completes the store step of its pass in this step
Stores(th) == poll[th].pc = "store" /\ poll'[th].pc = "finally"

C4_InvalidResponseKeepsFields ==
    [][\A th \in Threads :
        LET t == poll[th].track IN
        /\ (Stores(th) /\ ~poll[th].cells_resp.raised
                /\ ~ValidResponseFormat(poll[th].cells_resp.data))
            => svc_data'[t].cell_voltages = svc_data[t].cell_voltages
        /\ (Stores(th) /\ ~poll[th].basic_resp.raised
                /\ ~ValidResponseFormat(poll[th].basic_resp.data))
            => svc_data'[t].voltage = svc_data[t].voltage]_vars

\* the checksum bytes of a response equal 0x10000 - sum(status, length, payload)
ReadChecksumOK(data) ==
    /\ Len(data) >= 6
    /\ UnpackH(data, Len(data) - 3) = FrameChecksum(SubSeq(data, 2, Len(data) - 3))

\* C5: a response whose checksum does not match its bytes is rejected and
\* discarded: none of its fields reaches the stored snapshot.
C5_ChecksumMismatchDiscarded ==
    [][\A th \in Threads :
        (Stores(th) /\ ~poll[th].basic_resp.raised
            /\ ~ReadChecksumOK(poll[th].basic_resp.data))
        => Telemetry(svc_data'[poll[th].track]) = Telemetry(svc_data[poll[th].track])]_vars

\* in this step thread th enters poll_single_bms
BeginsPoll(th) == poll[th].pc \in {"top", "sleep"} /\ poll'[th].pc = "connect"

RECURSIVE OpenConnections(_)
OpenConnections(n) == IF n = 0 THEN 0 ELSE poll[n].open + OpenConnections(n - 1)

IssuesCommand(th) == poll[th].pc \in {"basic", "cells"} /\ poll'[th].pc # poll[th].pc

\* C16: once the shutdown signal is raised (running set to false) the read
\* cycle in progress issues no further command and the polling loop starts no
\* further track poll
C16_ShutdownObserved ==
    [][(started > 0 /\ ~running) =>
        \A th \in Threads : ~IssuesCommand(th) /\ ~BeginsPoll(th)]_vars

\* C21: the decoded cell voltages published for a track are the nonzero raw
\* readings of the reply in their original order; every zero reading is
\* excluded, so four nonzero cells followed by four zero cells give exactly
\* the four leading values
C21_ZeroCellsExcluded ==
    \A t \in Tracks :
        LET cv == svc_data[t].cell_voltages IN
        /\ \A i \in 1..Len(cv) : cv[i] # 0
        /\ (Len(cv) >= 4 /\ SubSeq(cv, 1, 4) = <<3301, 3302, 3303, 3304>>) => Len(cv) = 4

\* C23 as stated: every request written to the device is
\* [0xDD, 0xA5, cmd, 0x00, crcHi, crcLo, 0x77] with the 16-bit checksum
\* 0x10000 - sum(length byte + payload bytes); DD A5 03 00 FF FD 77 for 0x03
\* and DD A5 04 00 FF FC 77 for 0x04.
C23_RequestChecksumOverLength ==
    \A th \in Threads :
        LET f == poll[th].cmd IN
        f # <<>> =>
            /\ Len(f) = 7 /\ f[1] = 221 /\ f[2] = 165 /\ f[4] = 0 /\ f[7] = 119
            /\ f[5] * 256 + f[6] = FrameChecksum(<<f[4]>>)
            /\ f[3] = 3 => f = <<221, 165, 3, 0, 255, 253, 119>>
            /\ f[3] = 4 => f = <<221, 165, 4, 0, 255, 252, 119>>

\* C23, amended: every request written to the device is
\* [0xDD, 0xA5, cmd, 0x00, crcHi, crcLo, 0x77] with the 16-bit checksum
\* 0x10000 - sum(command byte + length byte + payload bytes);
\* DD A5 03 00 FF FD 77 for 0x03 and DD A5 04 00 FF FC 77 for 0x04.
C23_RequestChecksum ==
    \A th \in Threads :
        LET f == poll[th].cmd IN
        f # <<>> =>
            /\ Len(f) = 7 /\ f[1] = 221 /\ f[2] = 165 /\ f[4] = 0 /\ f[7] = 119
            /\ f[3] \in {3, 4}
            /\ f[5] * 256 + f[6] = FrameChecksum(<<f[3], f[4]>>)
            /\ f[3] = 3 => f = <<221, 165, 3, 0, 255, 253, 119>>
            /\ f[3] = 4 => f = <<221, 165, 4, 0, 255, 252, 119>>

\* C23 witness: a pass has sent the 0x03 request and then the 0x04 request
C23_Witness ==
    \E th \in Threads : poll[th].pc = "store" /\ poll[th].cmd = <<221, 165, 4, 0, 255, 252, 119>>

\* C31: a poll of a track that fails to connect or receives no data leaves
\* the track's stored telemetry (voltage, current, capacities, soc, cycles,
\* cell voltages, last update) unchanged; only the connection status changes.
C31_FailedPollKeepsTelemetry ==
    [][\A t \in Tracks :
        (svc_data'[t] # svc_data[t] /\ svc_data'[t].connection_status # "connected") =>
            Telemetry(svc_data'[t]) = Telemetry(svc_data[t])]_vars

\* C31 witness: a track with stored telemetry, cell voltages included, whose
\* later poll failed
C31_Witness ==
    \E t \in Tracks :
        /\ svc_data[t].connection_status \in {"no_data", "connection_failed"}
        /\ svc_data[t].voltage > 0
        /\ svc_data[t].cell_voltages # <<>>

\* a client that calls start_service and stop_service in any order.  The
\* join of stop_service (timeout 10 s) has returned before the next call: no
\* thread is then at a step that takes no time (the loop tests and the store);
\* a thread that sleeps or waits for the device may outlast the join.  The
\* devices do not answer or answer correctly.
NextDualCalls ==
    \/ (start_service /\ (\A th \in Threads : poll[th].pc \notin {"top", "check", "store"})
            /\ UNCHANGED <<delegVars, sessVars, okVars>>)
    \/ (stop_service /\ UNCHANGED <<delegVars, sessVars, okVars>>)
    \/ \E th \in Threads : PollTop(th) /\ UNCHANGED <<delegVars, sessVars, okVars>>
    \/ \E th \in Threads : PollConnect(th) /\ UNCHANGED <<delegVars, sessVars, okVars>>
    \/ \E th \in Threads : PollBasicInfo(th) /\ poll'[th].basic_resp \in {Raise, Bytes(BasicGood)}
            /\ UNCHANGED <<delegVars, sessVars, okVars>>
    \/ \E th \in Threads : PollCellVoltages(th) /\ poll'[th].cells_resp \in {Raise, Bytes(CellsGood)}
            /\ UNCHANGED <<delegVars, sessVars, okVars>>
    \/ \E th \in Threads : PollStore(th) /\ UNCHANGED <<delegVars, sessVars, okVars>>
    \/ \E th \in Threads : PollDisconnect(th) /\ UNCHANGED <<delegVars, sessVars, okVars>>
    \/ \E th \in Threads : PollCheck(th) /\ UNCHANGED <<delegVars, sessVars, okVars>>
    \/ \E th \in Threads : PollSleep(th) /\ UNCHANGED <<delegVars, sessVars, okVars>>

SpecDualCalls == InitDual /\ [][NextDualCalls]_vars

\* C37: at most one poll_bms_data thread is live at any time, for any
\* sequence of start_service and stop_service calls.
C37_OnePollingThread ==
    Cardinality({th \in Threads : poll[th].pc \notin {"none", "exit"}}) <= 1

\* C20: the state of charge published for a track equals remaining/nominal*100
\* of the published remaining and nominal capacity (in hundredths of a
\* percent), and is 0 when the nominal capacity is 0; no other byte of the
\* frame decides it
C20_SocComputedFromCapacities ==
    \A t \in Tracks :
        svc_data[t].soc =
            ChargeLevel(svc_data[t].remaining_capacity, svc_data[t].total_capacity)

\* the command got no response frame: the transport gave up or read nothing
Unanswered(resp) == resp.raised \/ resp.data = <<>>

\* C9: a command that gets no response is failed, the cycle goes on to the
\* next command and completes, and what the answered commands delivered is
\* published: when only the cell-voltage command answered, the stored
\* snapshot holds those cell voltages after the cycle.
C9_PartialTelemetryPublished ==
    [][\A th \in Threads :
        (Stores(th) /\ Unanswered(poll[th].basic_resp) /\ poll[th].cells # <<>>)
        => svc_data'[poll[th].track].cell_voltages = poll[th].cells]_vars

(***************************************************************************)
(* JBDBMSReader of test_single_left.py: connect, read_data, reconnect,     *)
(* disconnect, driven by test_left_bms_repeatedly                          *)
(***************************************************************************)
\* range(5) in test_left_bms_repeatedly
Attempts == 5

\* the wait loop: 3 seconds in waitForNotifications(0.5) slices
WaitSlices == 6

\* len(commands) in read_data
NumCommands == 2

\* the command codes of read_data's commands list
CommandCode(i) == IF i = 0 THEN 3 ELSE 4

\* the chunks a notification may carry during a session
SessionChunks == {<<0>>, PackFrame, SplitAt(CellFrame8, 10)[1], SplitAt(CellFrame8, 10)[2]}

\* a reconnect for every command, not only the first
ShouldReconnect_AnyCommand(disconnected, i) == disconnected

\* read_data, line 216: "disconnected" in str(e).lower() and i == 0
ShouldReconnect(disconnected, i) == disconnected /\ i = 0

\* reconnect(): a new Peripheral, the old delegate, notifications enabled;
\* outcome "ok", "no_link" (Peripheral raised) or "no_cccd" (the write to
\* handle 22 raised, the new peripheral stays assigned)
Reconnect(r, outcome) ==
    [r EXCEPT !.reconnects = @ + 1,
              !.peripheral = IF outcome = "no_link" THEN @ ELSE TRUE,
              !.connected = IF outcome = "ok" THEN @ ELSE FALSE]

\* read_data, lines 215-225: the except BTLEException clause
OnBTLEException(r, exc, outcome) ==
    IF ShouldReconnect(exc = "disconnected", r.i)
    THEN IF outcome = "ok"
         THEN IF r.i + 1 < NumCommands
              THEN [Reconnect(r, outcome) EXCEPT !.exc = exc, !.i = r.i + 1, !.pc = "write"]
              ELSE [Reconnect(r, outcome) EXCEPT !.exc = exc, !.pc = "done", !.result = "True"]
         ELSE [Reconnect(r, outcome) EXCEPT !.exc = exc, !.pc = "done", !.result = "False"]
    ELSE [r EXCEPT !.exc = exc, !.pc = "done", !.result = "False"]

\* the delegate receives chunk data at time now
Deliver(data) ==
    LET r == HandleNotificationResult(partial_message, battery_data,
                                      processed, data, now) IN
        /\ partial_message' = r.partial
        /\ battery_data' = r.bd
        /\ processed' = r.done
        /\ now' = now + 1

NoDelivery == UNCHANGED <<partial_message, battery_data, processed, now>>

\* connect(): Peripheral(), a new JBDBMSDelegate, enable notifications; a
\* failure to enable them on handles 22..25 is swallowed
SessionConnect ==
    /\ rd.pc = "new"
    /\ \E outcome \in {"ok", "no_cccd", "no_link"} :
        IF outcome = "no_link"
        THEN /\ rd' = [rd EXCEPT !.pc = "finally"]
             /\ UNCHANGED <<partial_message, battery_data, processed>>
        ELSE /\ rd' = [rd EXCEPT !.peripheral = TRUE, !.delegate = TRUE,
                                  !.connected = TRUE, !.pc = "connected"]
             /\ partial_message' = <<>>
             /\ battery_data' = NewBatteryData
             /\ processed' = <<>>
    /\ UNCHANGED <<now, attempt, sent, chunks, fed>>

\* read_data, lines 182-197: the guard, then the first command
ReadDataBegin ==
    /\ rd.pc = "connected"
    /\ rd' = IF ~rd.connected \/ ~rd.peripheral
             THEN [rd EXCEPT !.pc = "done", !.result = "False"]
             ELSE [rd EXCEPT !.pc = "write", !.i = 0]
    /\ UNCHANGED <<now, attempt, delegVars>>

\* read_data, line 202: writeCharacteristic(21, cmd); a notification that
\* arrives while the write is in progress is handed to the delegate first
WriteCommand ==
    /\ rd.pc = "write"
    /\ \/ NoDelivery
       \/ \E data \in SessionChunks : Deliver(data)
    /\ \E exc \in {"none", "disconnected", "error"} :
       \E outcome \in {"ok", "no_link", "no_cccd"} :
        LET w == [rd EXCEPT !.writes = Append(@, CommandCode(rd.i))] IN
        rd' = IF exc = "none"
              THEN [w EXCEPT !.exc = exc, !.pc = "wait", !.slices = 0, !.got = FALSE]
              ELSE OnBTLEException(w, exc, outcome)
    /\ UNCHANGED <<attempt, sent, chunks, fed>>

\* the wait loop is left at once, answered or not
WaitOver_AtOnce(got, slices) == TRUE

\* read_data, lines 206-209: break on a notification, or the 3 seconds are over
WaitOver(got, slices) == got \/ slices >= WaitSlices

\* the wait loop after one more slice
AfterSlice(r, got) ==
    [r EXCEPT !.exc = "none", !.slices = @ + 1, !.got = got,
              !.pc = IF WaitOver(got, r.slices + 1) THEN "pause" ELSE "wait"]

\* read_data, lines 205-211: one waitForNotifications(0.5) of the wait loop
WaitForNotification ==
    /\ rd.pc = "wait"
    /\ \/ \E data \in SessionChunks :
            /\ Deliver(data)
            /\ rd' = AfterSlice(rd, TRUE)
       \/ /\ NoDelivery
          /\ rd' = AfterSlice(rd, FALSE)
       \/ /\ NoDelivery
          /\ \E exc \in {"disconnected", "error"} :
             \E outcome \in {"ok", "no_link", "no_cccd"} :
                rd' = OnBTLEException(rd, exc, outcome)
    /\ UNCHANGED <<attempt, sent, chunks, fed>>

\* read_data, line 213 and the loop's end: time.sleep(0.5), the next command
\* or return True
PauseBetweenCommands ==
    /\ rd.pc = "pause"
    /\ rd' = IF rd.i + 1 < NumCommands
             THEN [rd EXCEPT !.i = @ + 1, !.pc = "write"]
             ELSE [rd EXCEPT !.pc = "done", !.result = "True"]
    /\ UNCHANGED <<now, attempt, delegVars>>

\* test_left_bms_repeatedly, lines 269-282: the report
ReadDataEnd ==
    /\ rd.pc = "done"
    /\ rd' = [rd EXCEPT !.pc = "finally"]
    /\ UNCHANGED <<now, attempt, delegVars>>

\* disconnect(), from the driver's finally
SessionDisconnect ==
    /\ rd.pc = "finally"
    /\ rd' = [rd EXCEPT !.connected = FALSE, !.pc = "closed"]
    /\ UNCHANGED <<now, attempt, delegVars>>

\* test_left_bms_repeatedly, line 265: the next attempt's new reader
NextAttempt ==
    /\ rd.pc = "closed"
    /\ attempt + 1 < Attempts
    /\ attempt' = attempt + 1
    /\ rd' = NewReader
    /\ UNCHANGED <<now, delegVars>>

InitSession ==
    /\ InitClock
    /\ InitDelegate
    /\ sent = <<>> /\ chunks = <<>> /\ fed = 0
    /\ InitDualIdle
    /\ InitSessionIdle
    /\ InitOverkillOff

NextSession ==
    \/ (SessionConnect /\ UNCHANGED <<dualVars, okVars>>)
    \/ (ReadDataBegin /\ UNCHANGED <<dualVars, okVars>>)
    \/ (WriteCommand /\ UNCHANGED <<dualVars, okVars>>)
    \/ (WaitForNotification /\ UNCHANGED <<dualVars, okVars>>)
    \/ (PauseBetweenCommands /\ UNCHANGED <<dualVars, okVars>>)
    \/ (ReadDataEnd /\ UNCHANGED <<dualVars, okVars>>)
    \/ (SessionDisconnect /\ UNCHANGED <<dualVars, okVars>>)
    \/ (NextAttempt /\ UNCHANGED <<dualVars, okVars>>)

SpecSession == InitSession /\ [][NextSession]_vars

\* in this step a transport call of read_data (the command write or the wait
\* for its notification) raised a BTLEException saying "disconnected"
LinkDropped == rd.pc \in {"write", "wait"} /\ rd'.exc = "disconnected"

\* C2: when a command of the read cycle reports that the link dropped, the
\* session reconnects exactly once and re-issues that same command; when the
\* recovery fails the cycle is aborted with connected = false and read_data
\* reports failure; for either of the two commands.
C2_ReconnectRetriesSameCommand ==
    [][LinkDropped =>
        /\ rd'.reconnects = rd.reconnects + 1
        /\ IF rd'.pc # "done"
           THEN rd'.pc = "write" /\ rd'.i = rd.i
           ELSE ~rd'.connected /\ rd'.result = "False"]_vars

\* s is an initial segment of t
IsPrefix(s, t) == Len(s) <= Len(t) /\ s = SubSeq(t, 1, Len(s))

\* C2 as amended: a link drop on the first command makes one reconnect, after
\* which the cycle goes on with the second command (0x03 is not written
\* again), or, the reconnect failing, ends with connected = false and result
\* False; a link drop on the second command ends the cycle with result False,
\* no reconnect, and connected as it was.
C2_ReconnectOnFirstCommandOnly ==
    [][LinkDropped =>
        /\ IsPrefix(rd'.writes, <<3, 4>>)
        /\ IF rd.i = 0
           THEN /\ rd'.reconnects = rd.reconnects + 1
                /\ rd'.reconnects = 1
                /\ \/ rd'.pc = "write" /\ rd'.i = 1 /\ rd'.connected
                   \/ rd'.pc = "done" /\ ~rd'.connected /\ rd'.result = "False"
           ELSE /\ rd'.reconnects = rd.reconnects
                /\ rd'.pc = "done"
                /\ rd'.result = "False"
                /\ rd'.connected = rd.connected]_vars

\* C2 witness: a cycle whose first command dropped the link, reconnected once,
\* wrote the second command and completed
C2_Witness ==
    /\ rd.pc = "done"
    /\ rd.reconnects = 1
    /\ rd.writes = <<3, 4>>
    /\ rd.result = "True"

\* in this step read_data writes a command that is not the first of its cycle
WritesNextCommand ==
    /\ rd.pc = "write"
    /\ rd.writes # <<>>
    /\ Len(rd'.writes) = Len(rd.writes) + 1

\* the previous command is over: its wait loop saw a notification, or ran its
\* 3 seconds, or the command died with the link that was then reopened
PreviousResolved == rd.got \/ rd.slices >= WaitSlices \/ rd.exc = "disconnected"

Hex77 == <<7, 7>>

\* process_cell_voltages: the eight raw cells at byte offset 4; struct.error
\* (too few bytes) is caught and leaves the delegate alone
ProcessCellVoltages(d, data) ==
    IF Len(data) < 20 THEN d
    ELSE [d EXCEPT !.cell_voltages = [k \in 1..8 |-> UnpackH(data, 4 + 2 * (k - 1))]]

\* process_pack_info: a new pack_info dict (amps in 1/100 A, charge_level in 1/100 %)
ProcessPackInfo(d, data) ==
    IF Len(data) < 20 THEN d
    ELSE [d EXCEPT !.pack_info =
            [some |-> TRUE, amps |-> Unpackh(data, 6),
             charge_level |-> ChargeLevel(UnpackH(data, 8), UnpackH(data, 10)),
             temp1 |-> 0]]

\* process_pack_status: '>HBBBBBHHB' from offset 0, temp1 at offset 7;
\* pack_info.update keeps the other keys (temp1: raw tenths of a kelvin, 0 for None)
ProcessPackStatus(d, data) ==
    IF Len(data) < 12 THEN d
    ELSE [d EXCEPT !.pack_info.some = TRUE, !.pack_info.temp1 = UnpackH(data, 7)]

\* BMSDelegate.handleNotification: 'dd04' is looked for before 'dd03'
DelegateBranch(data) ==
    IF HexFind(Hexlify(data), HexDD04) THEN "cells"
    ELSE IF HexFind(Hexlify(data), HexDD03) THEN "pack"
    ELSE IF HexFind(Hexlify(data), Hex77) /\ 2 * Len(data) \in {28, 36} THEN "status"
    ELSE "none"

DelegateNotified(d, data) ==
    CASE DelegateBranch(data) = "cells" -> ProcessCellVoltages(d, data)
      [] DelegateBranch(data) = "pack" -> ProcessPackInfo(d, data)
      [] DelegateBranch(data) = "status" -> ProcessPackStatus(d, data)
      [] OTHER -> d

\* whether the process_* method reached its update_battery_data() call
ReachesUpdate(data) ==
    CASE DelegateBranch(data) = "cells" -> Len(data) >= 20
      [] DelegateBranch(data) = "pack" -> Len(data) >= 20
      [] DelegateBranch(data) = "status" -> Len(data) >= 12
      [] OTHER -> FALSE

\* the floors 2.5 V and 3.0 V in place of 3.0 V and 3.2 V
CellStatus_LowerFloors(mv) ==
    IF mv < 2500 THEN "critical"
    ELSE IF mv < 3000 \/ mv > 4100 THEN "warning"
    ELSE "normal"

\* update_battery_data, lines 143-148: status from the cell voltage in mV
CellStatus(mv) ==
    IF mv < 3000 THEN "critical"
    ELSE IF mv < 3200 \/ mv > 4100 THEN "warning"
    ELSE "normal"

\* update_battery_data, lines 134-160: the first four cells, zero cells left out;
\* amperage is amps / cell_count with cell_count = 4, kept in 1/400 A
RECURSIVE Batteries(_, _, _)
Batteries(d, i, n) ==
    IF i > n THEN <<>>
    ELSE (IF d.cell_voltages[i] > 0
          THEN <<[batteryNumber |-> i + (IF d.track = "right" THEN 4 ELSE 0),
                  voltage |-> d.cell_voltages[i],
                  amperage |-> d.pack_info.amps,
                  chargeLevel |-> d.pack_info.charge_level,
                  temperature |-> d.pack_info.temp1,
                  status |-> CellStatus(d.cell_voltages[i]),
                  track |-> d.track,
                  trackPosition |-> i]>>
          ELSE <<>>) \o Batteries(d, i + 1, n)

\* the batteries are built as soon as there are cell voltages
UpdateApplies_CellsOnly(d) == d.cell_voltages # <<>>

\* update_battery_data, line 130: nothing without both cell voltages and pack info
UpdateApplies(d) == d.cell_voltages # <<>> /\ d.pack_info.some

(***************************************************************************)
(* bms_reader.py: OverkillBMSReader, and the threads of bms_api_server.py  *)
(***************************************************************************)
\* the notification chunks a device may send: the first 20 bytes of a cell
\* reply and of a pack-info reply
OverkillChunks == {SplitAt(CellFrame8, 20)[1], SplitAt(PackFrame, 20)[1]}

\* a method call begins / has returned
Begin(r, op, k) ==
    [r EXCEPT !.op = op, !.k = k, !.per = 0, !.opened = FALSE, !.cccd_ok = FALSE,
              !.cmds = <<>>,
              !.again = (op = "disconnect" /\ r.op = "disconnect" /\ r.cpc = "ret"
                            /\ r.k = k),
              !.cpc = CASE op = "connect" -> "open"
                        [] op = "disconnect" -> "close"
                        [] OTHER -> "check"]
Return(r, v) == [r EXCEPT !.cpc = "ret", !.ret = v]
Returned(t, op) == thr[t].op = op /\ thr[t].cpc = "ret"

\* connect_to_device, lines 221-230: both except clauses
ConnectFailed_ErrorKept(st) == [st EXCEPT !.connected = FALSE]

ConnectFailed(st) == [st EXCEPT !.connected = FALSE, !.error_message = "err"]

\* connect_to_device, lines 213-216
ConnectSucceeded(st, t) ==
    [st EXCEPT !.connected = TRUE, !.last_update = t, !.error_message = "None"]

\* connect_to_device, line 196: Peripheral(mac_address) connects, or raises
\* (always when the device is absent)
ConnectOpen(t) ==
    /\ thr[t].op = "connect" /\ thr[t].cpc = "open"
    /\ LET k == thr[t].k IN
       \/ /\ nlinks < MaxLinks
          /\ k \in devices
          /\ nlinks' = nlinks + 1
          /\ links' = links \cup {nlinks + 1}
          /\ dlg' = [dlg EXCEPT ![nlinks + 1] = NewDelegate(k)]
          /\ thr' = [thr EXCEPT ![t] = [@ EXCEPT !.per = nlinks + 1, !.opened = TRUE,
                                                  !.cpc = "cccd"]]
          /\ UNCHANGED <<connection_status, writers, consistent>>
       \/ /\ connection_status' = [connection_status EXCEPT ![k] = ConnectFailed(@)]
          /\ writers' = [writers EXCEPT ![k] = @ \cup {t}]
          /\ thr' = [thr EXCEPT ![t] = Return(@, FALSE)]
          /\ UNCHANGED <<nlinks, links, dlg, consistent>>
    /\ UNCHANGED <<devices, now, reader_ready, ok_running, peripherals, delegates, last_data,
                   requests, api_resp>>

\* connect_to_device, lines 203-219: the write to handle 22 (a failure is only
\* logged), the peripheral and delegate stored, the status updated
ConnectStore(t) ==
    /\ thr[t].op = "connect" /\ thr[t].cpc = "cccd"
    /\ now < MaxStamps
    /\ LET k == thr[t].k IN
       /\ \E ok \in BOOLEAN :
            thr' = [thr EXCEPT ![t] = Return([@ EXCEPT !.cccd_ok = ok], TRUE)]
       /\ peripherals' = [peripherals EXCEPT ![k] = thr[t].per]
       /\ delegates' = [delegates EXCEPT ![k] = thr[t].per]
       /\ connection_status' = [connection_status EXCEPT ![k] = ConnectSucceeded(@, now)]
       /\ writers' = [writers EXCEPT ![k] = @ \cup {t}]
       /\ consistent' = [consistent EXCEPT ![k] = @ \cup {<<last_data[k], now>>}]
    /\ now' = now + 1
    /\ UNCHANGED <<devices, reader_ready, ok_running, dlg, links, nlinks, last_data, requests, api_resp>>

\* the handles are deleted and the status is left as it was
DisconnectDevice_StatusKept(t) ==
    /\ thr[t].op = "disconnect" /\ thr[t].cpc = "close"
    /\ links' = links \ {peripherals[thr[t].k]}
    /\ peripherals' = [peripherals EXCEPT ![thr[t].k] = 0]
    /\ delegates' = [delegates EXCEPT ![thr[t].k] = 0]
    /\ thr' = [thr EXCEPT ![t] = Return(@, TRUE)]
    /\ UNCHANGED <<devices, now, reader_ready, ok_running, nlinks, last_data, requests,
                   api_resp, consistent, dlg, connection_status, writers>>

\* disconnect_device: with the track in peripherals, disconnect() and both
\* del statements, then connected = False; a raising disconnect() skips the rest
DisconnectDevice(t) ==
    /\ thr[t].op = "disconnect" /\ thr[t].cpc = "close"
    /\ LET k == thr[t].k IN
       \/ /\ links' = links \ {peripherals[k]}
          \* the delegate of a closed link is never notified again
          /\ dlg' = IF peripherals[k] = 0 THEN dlg
                    ELSE [dlg EXCEPT ![peripherals[k]] = NewDelegate("left")]
          /\ peripherals' = [peripherals EXCEPT ![k] = 0]
          /\ delegates' = [delegates EXCEPT ![k] = 0]
          /\ connection_status' = [connection_status EXCEPT ![k].connected = FALSE]
          /\ writers' = [writers EXCEPT ![k] = @ \cup {t}]
       \/ /\ peripherals[k] # 0
          /\ UNCHANGED <<links, dlg, peripherals, delegates, connection_status, writers>>
    /\ thr' = [thr EXCEPT ![t] = Return(@, TRUE)]
    /\ UNCHANGED <<devices, now, reader_ready, ok_running, nlinks, last_data, requests,
                   api_resp, consistent>>

\* read_bms_data, lines 248-252
ReadCheck(t) ==
    /\ thr[t].op = "read" /\ thr[t].cpc = "check"
    /\ thr' = [thr EXCEPT ![t] =
                IF peripherals[thr[t].k] = 0 THEN Return(@, FALSE)
                ELSE [@ EXCEPT !.per = peripherals[thr[t].k], !.cpc = "write"]]
    /\ UNCHANGED <<devices, now, reader_ready, ok_running, peripherals, delegates, dlg, links,
                   nlinks, last_data, connection_status, requests, api_resp, consistent,
                   writers>>

\* read_bms_data, line 255: the command code of b'\xdd\xa5\x04\x00\xff\xfc\x77'
ReadCommand == 4

\* read_bms_data, lines 260-268: BTLEException clears connected, any exception
\* sets error_message
ReadFailed(st, btle) ==
    [st EXCEPT !.connected = IF btle THEN FALSE ELSE @, !.error_message = "err"]

\* read_bms_data, line 255: writeCharacteristic(21, 0x04 command); it cannot
\* succeed on a link that was disconnected
ReadWrite(t) ==
    /\ thr[t].op = "read" /\ thr[t].cpc = "write"
    /\ LET k == thr[t].k IN
       \/ /\ thr[t].per \in links
          /\ thr' = [thr EXCEPT ![t] = [@ EXCEPT !.cpc = "wait",
                                                  !.cmds = Append(@, ReadCommand)]]
          /\ UNCHANGED <<connection_status, writers>>
       \/ \E btle \in BOOLEAN :
          /\ connection_status' = [connection_status EXCEPT ![k] = ReadFailed(@, btle)]
          /\ writers' = [writers EXCEPT ![k] = @ \cup {t}]
          /\ thr' = [thr EXCEPT ![t] = Return(@, FALSE)]
    /\ UNCHANGED <<devices, now, reader_ready, ok_running, peripherals, delegates, dlg, links,
                   nlinks, last_data, requests, api_resp, consistent>>

\* read_bms_data, line 256: waitForNotifications(3) hands one notification to
\* the peripheral's delegate (update_battery_data then stores the batteries,
\* line 163), or times out, or raises; answers[k]: what the device of track k
\* may send
ReadWaitFrom(t, answers) ==
    /\ thr[t].op = "read" /\ thr[t].cpc = "wait"
    /\ LET k == thr[t].k
           n == thr[t].per IN
       \/ /\ n \in links
          /\ \E data \in answers[k] :
             LET d == DelegateNotified(dlg[n], data) IN
             /\ dlg' = [dlg EXCEPT ![n] = d]
             /\ IF ReachesUpdate(data) /\ UpdateApplies(d)
                THEN /\ last_data' = [last_data EXCEPT ![d.track] = Batteries(d, 1, 4)]
                     /\ thr' = [thr EXCEPT ![t].cpc = "stamp"]
                ELSE /\ thr' = [thr EXCEPT ![t] = Return(@, TRUE)]
                     /\ UNCHANGED last_data
          /\ UNCHANGED <<connection_status, writers>>
       \/ /\ n \in links
          /\ thr' = [thr EXCEPT ![t] = Return(@, TRUE)]
          /\ UNCHANGED <<dlg, last_data, connection_status, writers>>
       \/ \E btle \in BOOLEAN :
          /\ connection_status' = [connection_status EXCEPT ![k] = ReadFailed(@, btle)]
          /\ writers' = [writers EXCEPT ![k] = @ \cup {t}]
          /\ thr' = [thr EXCEPT ![t] = Return(@, FALSE)]
          /\ UNCHANGED <<dlg, last_data>>
    /\ UNCHANGED <<devices, now, reader_ready, ok_running, peripherals, delegates, links, nlinks,
                   requests, api_resp, consistent>>

\* either device may send a cell reply or a pack-info reply
ReadWait(t) == ReadWaitFrom(t, [k \in Tracks |-> OverkillChunks])

\* update_battery_data, line 164: connection_status[track].last_update = now
UpdateStamp(t) ==
    /\ thr[t].op = "read" /\ thr[t].cpc = "stamp"
    /\ now < MaxStamps
    /\ LET k == thr[t].k IN
       /\ connection_status' = [connection_status EXCEPT ![k].last_update = now]
       /\ writers' = [writers EXCEPT ![k] = @ \cup {t}]
       /\ consistent' = [consistent EXCEPT ![k] = @ \cup {<<last_data[k], now>>}]
    /\ now' = now + 1
    /\ thr' = [thr EXCEPT ![t] = Return(@, TRUE)]
    /\ UNCHANGED <<devices, reader_ready, ok_running, peripherals, delegates, dlg, links, nlinks,
                   last_data, requests, api_resp>>

\* what a thread's routine leaves alone when it only moves on
OkDataUnchanged ==
    UNCHANGED <<now, peripherals, delegates, dlg, links, devices, nlinks, last_data,
                connection_status, consistent, writers>>

\* the thread is between method calls
Free(t) == thr[t].op = "none" \/ thr[t].cpc = "ret"

\* run_bms_reader, lines 59-63: the reader is created and connect_all_devices
\* begins with the left track
run_bms_reader ==
    /\ thr["reader"].pc = "off"
    /\ reader_ready' = TRUE
    /\ thr' = [thr EXCEPT !["reader"] = Begin([@ EXCEPT !.pc = "ca_left"], "connect", "left")]
    /\ UNCHANGED <<ok_running, requests, api_resp>>
    /\ OkDataUnchanged

\* connect_all_devices, lines 275-278: results['left'] kept, the right track next
ConnectAllRight(t) ==
    /\ thr[t].pc = "ca_left" /\ Returned(t, "connect")
    /\ thr' = [thr EXCEPT ![t] =
                Begin([@ EXCEPT !.pc = "ca_right", !.res_left = thr[t].ret], "connect", "right")]
    /\ UNCHANGED <<reader_ready, ok_running, requests, api_resp>>
    /\ OkDataUnchanged

\* the test of line 67 left out: start_reading is called whatever the results
RunAfterConnect_LoopAlways ==
    /\ thr["reader"].pc = "ca_right" /\ Returned("reader", "connect")
    /\ ok_running' = TRUE
    /\ thr' = [thr EXCEPT !["reader"] = [@ EXCEPT !.pc = "while", !.op = "none"]]
    /\ UNCHANGED <<reader_ready, requests, api_resp>>
    /\ OkDataUnchanged

\* run_bms_reader, lines 65-70, and start_reading, line 289: with any track
\* connected the loop starts (running = True), else the finally clause runs
RunAfterConnect ==
    /\ thr["reader"].pc = "ca_right" /\ Returned("reader", "connect")
    /\ IF thr["reader"].res_left \/ thr["reader"].ret
       THEN /\ ok_running' = TRUE
            /\ thr' = [thr EXCEPT !["reader"] = [@ EXCEPT !.pc = "while", !.op = "none"]]
       ELSE /\ thr' = [thr EXCEPT !["reader"] =
                        Begin([@ EXCEPT !.pc = "da2_left"], "disconnect", "left")]
            /\ UNCHANGED ok_running
    /\ UNCHANGED <<reader_ready, requests, api_resp>>
    /\ OkDataUnchanged

\* start_reading, lines 292 and 315: while self.running, else disconnect_all
WhileRunning ==
    /\ thr["reader"].pc = "while"
    /\ thr' = [thr EXCEPT !["reader"] =
                IF ok_running THEN [@ EXCEPT !.pc = "loop_left", !.op = "none"]
                ELSE Begin([@ EXCEPT !.pc = "da1_left"], "disconnect", "left")]
    /\ UNCHANGED <<reader_ready, ok_running, requests, api_resp>>
    /\ OkDataUnchanged

LoopTrackOf(pc) == IF pc = "loop_left" THEN "left" ELSE "right"

\* the for loop of start_reading moves to the next track, or to the sleep
\* and the next while test
LoopAdvance(r) ==
    [r EXCEPT !.op = "none", !.pc = IF @ = "loop_left" THEN "loop_right" ELSE "while"]

\* the test of line 296 left out: every track is read
LoopTrack_ReadsAlways ==
    /\ thr["reader"].pc \in {"loop_left", "loop_right"} /\ thr["reader"].op = "none"
    /\ LET k == LoopTrackOf(thr["reader"].pc) IN
       thr' = [thr EXCEPT !["reader"] = Begin(@, "read", k)]
    /\ UNCHANGED <<reader_ready, ok_running, requests, api_resp>>
    /\ OkDataUnchanged

\* start_reading, lines 295-297: a connected track is read
LoopTrack ==
    /\ thr["reader"].pc \in {"loop_left", "loop_right"} /\ thr["reader"].op = "none"
    /\ LET k == LoopTrackOf(thr["reader"].pc) IN
       thr' = [thr EXCEPT !["reader"] =
                IF connection_status[k].connected THEN Begin(@, "read", k)
                ELSE LoopAdvance(@)]
    /\ UNCHANGED <<reader_ready, ok_running, requests, api_resp>>
    /\ OkDataUnchanged

\* start_reading, lines 298-302: a failed read disconnects the track
LoopAfterRead ==
    /\ thr["reader"].pc \in {"loop_left", "loop_right"} /\ Returned("reader", "read")
    /\ thr' = [thr EXCEPT !["reader"] =
                IF @.ret THEN LoopAdvance(@) ELSE Begin(@, "disconnect", @.k)]
    /\ UNCHANGED <<reader_ready, ok_running, requests, api_resp>>
    /\ OkDataUnchanged

\* start_reading, lines 303-304: sleep(1), then connect_to_device
LoopAfterDisconnect ==
    /\ thr["reader"].pc \in {"loop_left", "loop_right"} /\ Returned("reader", "disconnect")
    /\ thr' = [thr EXCEPT !["reader"] = Begin(@, "connect", @.k)]
    /\ UNCHANGED <<reader_ready, ok_running, requests, api_resp>>
    /\ OkDataUnchanged

\* start_reading, line 304: the result of the reconnect is not looked at
LoopAfterConnect ==
    /\ thr["reader"].pc \in {"loop_left", "loop_right"} /\ Returned("reader", "connect")
    /\ thr' = [thr EXCEPT !["reader"] = LoopAdvance(@)]
    /\ UNCHANGED <<reader_ready, ok_running, requests, api_resp>>
    /\ OkDataUnchanged

\* disconnect_all: the left track, then the right track
DisconnectAllRight(t) ==
    /\ thr[t].pc \in {"da1_left", "da2_left", "rc_left", "sd_left"}
    /\ Returned(t, "disconnect")
    /\ thr' = [thr EXCEPT ![t] =
                Begin([@ EXCEPT !.pc = CASE @ = "da1_left" -> "da1_right"
                                         [] @ = "da2_left" -> "da2_right"
                                         [] @ = "rc_left" -> "rc_right"
                                         [] OTHER -> "sd_right"],
                      "disconnect", "right")]
    /\ UNCHANGED <<reader_ready, ok_running, requests, api_resp>>
    /\ OkDataUnchanged

\* start_reading has returned: the finally clause of run_bms_reader calls
\* disconnect_all once more; after that the thread ends
ReaderFinally ==
    /\ thr["reader"].pc \in {"da1_right", "da2_right"} /\ Returned("reader", "disconnect")
    /\ thr' = [thr EXCEPT !["reader"] =
                IF @.pc = "da1_right"
                THEN Begin([@ EXCEPT !.pc = "da2_left"], "disconnect", "left")
                ELSE [@ EXCEPT !.pc = "done", !.op = "none"]]
    /\ UNCHANGED <<reader_ready, ok_running, requests, api_resp>>
    /\ OkDataUnchanged

\* the event loop is idle and accepts another request
HttpIdle == thr["http"].pc = "off" /\ requests < MaxRequests

\* every handler, "if not bms_reader": 503
HttpNotInitialized ==
    /\ HttpIdle /\ ~reader_ready
    /\ requests' = requests + 1
    /\ api_resp' = NoResponse
    /\ UNCHANGED <<reader_ready, ok_running, thr>>
    /\ OkDataUnchanged

\* get_batteries, line 124: batteries = bms_reader.get_all_batteries(); with
\* batteries the answer is complete
get_batteries ==
    /\ HttpIdle /\ reader_ready
    /\ requests' = requests + 1
    /\ LET empty == \A k \in Tracks : last_data[k] = <<>> IN
       /\ api_resp' = [some |-> ~empty, batteries |-> last_data,
                       last_update |-> [k \in Tracks |-> 0], with_status |-> FALSE]
       /\ thr' = [thr EXCEPT !["http"].pc = IF empty THEN "gb_status" ELSE "off"]
    /\ UNCHANGED <<reader_ready, ok_running>>
    /\ OkDataUnchanged

\* get_batteries, lines 126-136: without batteries the connection status is
\* read and returned with the empty list
GetBatteriesStatus ==
    /\ thr["http"].pc = "gb_status"
    /\ api_resp' = [api_resp EXCEPT !.some = TRUE, !.with_status = TRUE,
                      !.last_update = [k \in Tracks |-> connection_status[k].last_update]]
    /\ thr' = [thr EXCEPT !["http"].pc = "off"]
    /\ UNCHANGED <<reader_ready, ok_running, requests>>
    /\ OkDataUnchanged

\* reconnect_bms, lines 206-209: disconnect_all on the event loop's thread
reconnect_bms ==
    /\ HttpIdle /\ reader_ready
    /\ requests' = requests + 1
    /\ thr' = [thr EXCEPT !["http"] = Begin([@ EXCEPT !.pc = "rc_left"], "disconnect", "left")]
    /\ UNCHANGED <<reader_ready, ok_running, api_resp>>
    /\ OkDataUnchanged

\* reconnect_bms, lines 211-215: sleep(1), then connect_all_devices
ReconnectConnect ==
    /\ thr["http"].pc = "rc_right" /\ Returned("http", "disconnect")
    /\ thr' = [thr EXCEPT !["http"] = Begin([@ EXCEPT !.pc = "ca_left"], "connect", "left")]
    /\ UNCHANGED <<reader_ready, ok_running, requests, api_resp>>
    /\ OkDataUnchanged

\* reconnect_bms, lines 217-221: the results are returned
ReconnectDone ==
    /\ thr["http"].pc = "ca_right" /\ Returned("http", "connect")
    /\ thr' = [thr EXCEPT !["http"] = [@ EXCEPT !.pc = "off", !.op = "none"]]
    /\ UNCHANGED <<reader_ready, ok_running, requests, api_resp>>
    /\ OkDataUnchanged

\* shutdown_event, lines 101-104, with stop_reading: running = False, then
\* disconnect_all on the event loop's thread
shutdown_event ==
    /\ thr["http"].pc = "off"
    /\ IF reader_ready
       THEN /\ ok_running' = FALSE
            /\ thr' = [thr EXCEPT !["http"] =
                        Begin([@ EXCEPT !.pc = "sd_left"], "disconnect", "left")]
       ELSE /\ thr' = [thr EXCEPT !["http"].pc = "stopped"]
            /\ UNCHANGED ok_running
    /\ UNCHANGED <<reader_ready, requests, api_resp>>
    /\ OkDataUnchanged

ShutdownDone ==
    /\ thr["http"].pc = "sd_right" /\ Returned("http", "disconnect")
    /\ thr' = [thr EXCEPT !["http"] = [@ EXCEPT !.pc = "stopped", !.op = "none"]]
    /\ UNCHANGED <<reader_ready, ok_running, requests, api_resp>>
    /\ OkDataUnchanged

ServerThreads == {"reader", "http"}

InitOverkill ==
    /\ InitClock
    /\ InitDelegate
    /\ sent = <<>> /\ chunks = <<>> /\ fed = 0
    /\ InitDualIdle
    /\ InitSessionIdle
    /\ InitOverkillIdle
    /\ devices = {"left"}

OtherVars == <<delegVars, dualVars, sessVars>>

NextOverkill ==
    \/ (run_bms_reader /\ UNCHANGED OtherVars)
    \/ \E t \in ServerThreads : ConnectOpen(t) /\ UNCHANGED OtherVars
    \/ \E t \in ServerThreads : ConnectStore(t) /\ UNCHANGED OtherVars
    \/ \E t \in ServerThreads : DisconnectDevice(t) /\ UNCHANGED OtherVars
    \/ \E t \in ServerThreads : ReadCheck(t) /\ UNCHANGED OtherVars
    \/ \E t \in ServerThreads : ReadWrite(t) /\ UNCHANGED OtherVars
    \/ \E t \in ServerThreads : ReadWait(t) /\ UNCHANGED OtherVars
    \/ \E t \in ServerThreads : UpdateStamp(t) /\ UNCHANGED OtherVars
    \/ \E t \in ServerThreads : ConnectAllRight(t) /\ UNCHANGED OtherVars
    \/ \E t \in ServerThreads : DisconnectAllRight(t) /\ UNCHANGED OtherVars
    \/ (RunAfterConnect /\ UNCHANGED OtherVars)
    \/ (WhileRunning /\ UNCHANGED OtherVars)
    \/ (LoopTrack /\ UNCHANGED OtherVars)
    \/ (LoopAfterRead /\ UNCHANGED OtherVars)
    \/ (LoopAfterDisconnect /\ UNCHANGED OtherVars)
    \/ (LoopAfterConnect /\ UNCHANGED OtherVars)
    \/ (ReaderFinally /\ UNCHANGED OtherVars)
    \/ (HttpNotInitialized /\ UNCHANGED OtherVars)
    \/ (get_batteries /\ UNCHANGED OtherVars)
    \/ (GetBatteriesStatus /\ UNCHANGED OtherVars)
    \/ (reconnect_bms /\ UNCHANGED OtherVars)
    \/ (ReconnectConnect /\ UNCHANGED OtherVars)
    \/ (ReconnectDone /\ UNCHANGED OtherVars)
    \/ (shutdown_event /\ UNCHANGED OtherVars)
    \/ (ShutdownDone /\ UNCHANGED OtherVars)

SpecOverkill == InitOverkill /\ [][NextOverkill]_vars

\* C6: an API request interleaved with a snapshot update never observes a
\* torn snapshot: the batteries and the last_update it answers with for a
\* track are a pair the reader held together (the previous snapshot with the
\* previous last_update, or the new snapshot with the new one)
C6_NoTornSnapshot ==
    (api_resp.some /\ api_resp.with_status) =>
        \A k \in Tracks : <<api_resp.batteries[k], api_resp.last_update[k]>> \in consistent[k]

\* C7: every track's connection status has a single writer, the polling
\* loop's thread: no other thread of control writes connected, error_message
\* or last_update
C7_SingleWriter == \A k \in Tracks : writers[k] \subseteq {"reader"}

\* the reconnect request has not been answered yet
ReconnectPending == thr["http"].pc \in {"rc_left", "rc_right", "ca_left", "ca_right"}

\* C18: POST /api/bms/reconnect is asynchronous: it returns to its caller
\* before the sessions are torn down and re-established, so the unanswered
\* request never waits for a BLE connect
C18_ReconnectReturnsAtOnce ==
    ReconnectPending =>
        ~(thr["http"].op = "connect" /\ thr["http"].cpc \in {"open", "cccd"})

\* the thread is between the command write of read_bms_data and the end of
\* its notification wait (the delegate's callback included)
InFlight(t) == thr[t].op = "read" /\ thr[t].cpc \in {"wait", "stamp"}

\* the thread has opened a connection for the track and not yet stored it
Opening(t, k) ==
    thr[t].op = "connect" /\ thr[t].cpc = "cccd" /\ thr[t].k = k

C39_LoopOnlyAfterInitialConnect ==
    /\ [][LET r == thr["reader"]
              q == thr'["reader"]
              loopPcs == {"while", "loop_left", "loop_right"}
          IN  /\ (q.pc \in loopPcs /\ r.pc \notin loopPcs) =>
                    (/\ r.pc = "ca_right" /\ r.op = "connect" /\ r.cpc = "ret"
                     /\ (r.res_left \/ r.ret))
              /\ (~ok_running /\ ok_running') => (q.pc = "while" /\ r.pc = "ca_right")
              /\ (r.pc \notin {"off", "ca_left", "ca_right"}) => q.pc \notin {"ca_left", "ca_right"}
              /\ \A t \in ServerThreads :
                    (thr'[t].op = "read" /\ thr[t].op # "read") =>
                        (t = "reader" /\ r.pc \in {"loop_left", "loop_right"})]_vars
    /\ []((/\ thr["reader"].pc = "ca_right" /\ Returned("reader", "connect")
           /\ ~thr["reader"].res_left /\ ~thr["reader"].ret)
          => [](\A t \in ServerThreads : thr[t].op # "read" /\ thr[t].cmds = <<>>))

\* C39 witness: the initial connect failed for both tracks, the reader
\* thread has ended without the loop, and a later HTTP reconnect has
\* connected the left track, of which no snapshot exists
C39_Witness ==
    /\ thr["reader"].pc = "done" /\ ~thr["reader"].res_left
    /\ connection_status["right"].last_update = 0
    /\ thr["http"].pc = "off" /\ requests > 0
    /\ connection_status["left"].connected
    /\ connection_status["left"].error_message = "None"
    /\ peripherals["left"] # 0
    /\ last_data["left"] = <<>>

\* C36: at most one open BLE connection exists per track at any time, and
\* connect_to_device never replaces a stored peripheral that has not been
\* disconnected, under any interleaving of the polling loop's reconnect and
\* the HTTP reconnect handler.
C36_OneConnectionPerTrack ==
    /\ [](\A k \in Tracks : Cardinality({n \in links : dlg[n].track = k}) <= 1)
    /\ [][\A k \in Tracks :
            (peripherals'[k] # peripherals[k] /\ peripherals[k] # 0 /\ peripherals'[k] # 0)
                => peripherals[k] \notin links]_vars

\* C8: a reconnect request is serialized behind a read cycle in flight: the
\* track's transport is neither torn down nor re-opened between the command
\* write and the end of the notification wait, and the polling loop and the
\* reconnect request never both open a connection for the same track
C8_ReconnectSerialized ==
    /\ \A t \in ServerThreads :
          InFlight(t) => thr[t].per \in links /\ peripherals[thr[t].k] = thr[t].per
    /\ \A k \in Tracks : ~(Opening("reader", k) /\ Opening("http", k))

(***************************************************************************)
(* bms_reader.py on its own: one caller uses the reader's methods one      *)
(* after another, in any order and on either track                         *)
(***************************************************************************)
Methods == {"connect", "disconnect", "read"}

\* main() of bms_reader.py and any other sequential client: the next call
Call ==
    /\ Free("caller")
    /\ \E op \in Methods, k \in Tracks :
         thr' = [thr EXCEPT !["caller"] = Begin(@, op, k)]
    /\ UNCHANGED <<reader_ready, ok_running, requests, api_resp>>
    /\ OkDataUnchanged

InitOverkillOps ==
    /\ InitClock
    /\ InitDelegate
    /\ sent = <<>> /\ chunks = <<>> /\ fed = 0
    /\ InitDualIdle
    /\ InitSessionIdle
    /\ InitOverkillIdle
    /\ devices = Tracks

NextOverkillOps ==
    \/ (Call /\ UNCHANGED OtherVars)
    \/ (ConnectOpen("caller") /\ UNCHANGED OtherVars)
    \/ (ConnectStore("caller") /\ UNCHANGED OtherVars)
    \/ (DisconnectDevice("caller") /\ UNCHANGED OtherVars)
    \/ (ReadCheck("caller") /\ UNCHANGED OtherVars)
    \/ (ReadWrite("caller") /\ UNCHANGED OtherVars)
    \/ (ReadWait("caller") /\ UNCHANGED OtherVars)
    \/ (UpdateStamp("caller") /\ UNCHANGED OtherVars)

SpecOverkillOps == InitOverkillOps /\ [][NextOverkillOps]_vars

\* connect_to_device has just returned to the caller
ConnectReturned == Returned("caller", "connect")

C32_LastUpdateOnlyWithSnapshot ==
    \A k \in Tracks : connection_status[k].last_update # 0 => last_data[k] # <<>>

\* C33: an operation on one track (connect, read with its notification
\* handling, disconnect) leaves the other track's stored snapshot, connection
\* status and transport handle unchanged: whatever changes belongs to the
\* track of the call in progress.
C33_TracksIndependent ==
    [][\A k \in Tracks :
        (\/ last_data'[k] # last_data[k]
         \/ connection_status'[k] # connection_status[k]
         \/ peripherals'[k] # peripherals[k]
         \/ delegates'[k] # delegates[k]) =>
            (~Free("caller") /\ thr["caller"].k = k)]_vars

\* C33 witness: the left track holds a snapshot and a read of the connected
\* right track has just returned
C33_Witness ==
    /\ Returned("caller", "read") /\ thr["caller"].k = "right" /\ thr["caller"].ret
    /\ connection_status["right"].connected
    /\ connection_status["left"].connected
    /\ last_data["left"] # <<>>

\* C35: between operations, connected = true for a track implies that a
\* peripheral and a delegate are stored for it, after any sequence of
\* connect_to_device, disconnect_device and read_bms_data, failure paths
\* included.
C35_ConnectedImpliesHandles ==
    Free("caller") =>
        \A k \in Tracks :
            connection_status[k].connected =>
                (peripherals[k] # 0 /\ delegates[k] # 0)

\* C35 witness: a track is still connected, with its handles, after a read
\* failed without a link error and after a disconnect whose close raised
C35_Witness ==
    /\ Returned("caller", "disconnect")
    /\ LET k == thr["caller"].k IN
        /\ connection_status[k].connected
        /\ connection_status[k].error_message = "err"
        /\ peripherals[k] # 0 /\ delegates[k] # 0

\* C11: disconnect called in any state, also when closing the transport
\* raises, leaves the track disconnected: connected is false and no transport
\* handle is kept for the track
C11_DisconnectLeavesDisconnected ==
    Returned("caller", "disconnect") =>
        /\ ~connection_status[thr["caller"].k].connected
        /\ peripherals[thr["caller"].k] = 0

(***************************************************************************)
(* bms_reader.py with a right device that answers only what is requested   *)
(* (the two notifications of the reply to command 0x04); the left device   *)
(* may also send a pack-info reply                                         *)
(***************************************************************************)
NextOverkillAnswers ==
    \/ (Call /\ UNCHANGED OtherVars)
    \/ (ConnectOpen("caller") /\ UNCHANGED OtherVars)
    \/ (ConnectStore("caller") /\ UNCHANGED OtherVars)
    \/ (DisconnectDevice("caller") /\ UNCHANGED OtherVars)
    \/ (ReadCheck("caller") /\ UNCHANGED OtherVars)
    \/ (ReadWrite("caller") /\ UNCHANGED OtherVars)
    \/ (ReadWaitFrom("caller", [k \in Tracks |->
                IF k = "left" THEN OverkillChunks
                ELSE {SplitAt(CellFrame8, 20)[1], SplitAt(CellFrame8, 20)[2]}])
            /\ UNCHANGED OtherVars)
    \/ (UpdateStamp("caller") /\ UNCHANGED OtherVars)

SpecOverkillAnswers == InitOverkillOps /\ [][NextOverkillAnswers]_vars

\* C34: last_data[track] is written only in a state where the track's
\* delegate holds both a non-empty cell-voltage list and pack info; as
\* read_bms_data requests only command 0x04, the right track, whose device
\* answers only what is requested, never gets a non-empty last_data.
C34_NoSnapshotWithoutPackInfo ==
    /\ [][\A k \in Tracks :
            last_data'[k] # last_data[k] =>
                \E n \in LinkIds :
                    /\ dlg'[n].track = k
                    /\ dlg'[n].cell_voltages # <<>>
                    /\ dlg'[n].pack_info.some]_vars
    /\ [](last_data["right"] = <<>>)

\* C34 witness: the left track has a snapshot; the right track is connected,
\* its 0x04 command was answered and decoded, and it has none
C34_Witness ==
    /\ last_data["left"] # <<>>
    /\ connection_status["right"].connected
    /\ peripherals["right"] # 0
    /\ dlg[peripherals["right"]].cell_voltages # <<>>
    /\ Returned("caller", "read") /\ thr["caller"].k = "right"
    /\ thr["caller"].cmds = <<4>>
    /\ last_data["right"] = <<>>

(***************************************************************************)
(* BMSDelegate fed with replies whose cell voltages lie at and around the  *)
(* status thresholds: a caller connects tracks, only the left pack is      *)
(* powered, and a connected device notifies                                *)
(***************************************************************************)
\* the first 20 bytes of an 8-cell reply: header and all eight cells
CellChunk(cells) == SubSeq(ResponseFrame(4, CellPayload(cells)), 1, 20)

\* cell voltages in mV at and around 2.5 V, 3.0 V, 3.2 V and 4.1 V
BoundaryCells ==
    {<<2499, 2500, 2501, 2999, 0, 0, 0, 0>>,
     <<3000, 3001, 3199, 3200, 0, 0, 0, 0>>,
     <<3201, 4099, 4100, 4101, 0, 0, 0, 0>>}

\* a pack-info reply with nominal capacity 0
PackFrameNoCapacity ==
    ResponseFrame(3, CellPayload(<<1333, 65336, 6693, 0, 7, 11023, 0, 0, 0>>)
                        \o <<33, 78, 3, 4, 2>> \o CellPayload(<<2981, 2975>>))

NotifyChunks ==
    {CellChunk(c) : c \in BoundaryCells}
        \cup {SubSeq(PackFrame, 1, 20), SubSeq(PackFrameNoCapacity, 1, 20)}

\* a caller connects a track
CallConnect ==
    /\ Free("caller")
    /\ \E k \in Tracks : thr' = [thr EXCEPT !["caller"] = Begin(@, "connect", k)]
    /\ UNCHANGED <<reader_ready, ok_running, requests, api_resp>>
    /\ OkDataUnchanged

\* BMSDelegate.handleNotification for the delegate of a connected track, with
\* update_battery_data (lines 163-164) when the process_* method reaches it
Notified ==
    /\ Free("caller")
    /\ \E k \in Tracks, data \in NotifyChunks :
        LET n == delegates[k]
            d == DelegateNotified(dlg[n], data) IN
        /\ n # 0 /\ n \in links
        /\ dlg' = [dlg EXCEPT ![n] = d]
        /\ IF ReachesUpdate(data) /\ UpdateApplies(d)
           THEN /\ now < MaxStamps
                /\ last_data' = [last_data EXCEPT ![k] = Batteries(d, 1, 4)]
                /\ connection_status' = [connection_status EXCEPT ![k].last_update = now]
                /\ consistent' = [consistent EXCEPT ![k] = @ \cup {<<Batteries(d, 1, 4), now>>}]
                /\ writers' = [writers EXCEPT ![k] = @ \cup {"caller"}]
                /\ now' = now + 1
           ELSE UNCHANGED <<now, last_data, connection_status, consistent, writers>>
    /\ UNCHANGED <<reader_ready, ok_running, peripherals, delegates, links, devices,
                   nlinks, thr, requests, api_resp>>

NextNotify ==
    \/ (CallConnect /\ UNCHANGED OtherVars)
    \/ (ConnectOpen("caller") /\ UNCHANGED OtherVars)
    \/ (ConnectStore("caller") /\ UNCHANGED OtherVars)
    \/ (Notified /\ UNCHANGED OtherVars)

SpecNotify == InitOverkill /\ [][NextNotify]_vars

\* the batteries published for both tracks
PublishedBatteries ==
    UNION {{last_data[k][i] : i \in 1..Len(last_data[k])} : k \in Tracks}

\* C19 as stated: the status is critical below 2.5 V, warning below 3.0 V or
\* above 4.1 V and normal otherwise (3.0 V to 4.1 V inclusive)
C19_CellStatusClaimedFloors ==
    \A b \in PublishedBatteries :
        b.status = (IF b.voltage < 2500 THEN "critical"
                    ELSE IF b.voltage < 3000 \/ b.voltage > 4100 THEN "warning"
                    ELSE "normal")

\* C19, amended: the status is a function of the cell voltage alone:
\* critical below 3.0 V, warning from 3.0 V to below 3.2 V or above 4.1 V,
\* normal otherwise, so every voltage from 3.2 V to 4.1 V inclusive is normal
C19_CellStatusByVoltage ==
    \A b \in PublishedBatteries :
        /\ b.voltage < 3000 => b.status = "critical"
        /\ (b.voltage >= 3000 /\ b.voltage < 3200) => b.status = "warning"
        /\ (b.voltage >= 3200 /\ b.voltage <= 4100) => b.status = "normal"
        /\ b.voltage > 4100 => b.status = "warning"

\* C19 witness: cells at 3.000 V and 3.199 V are published as warning and a
\* cell at 3.200 V as normal
C19_Witness ==
    /\ \E b \in PublishedBatteries : b.voltage = 3000 /\ b.status = "warning"
    /\ \E b \in PublishedBatteries : b.voltage = 3199 /\ b.status = "warning"
    /\ \E b \in PublishedBatteries : b.voltage = 3200 /\ b.status = "normal"

(***************************************************************************)
(* run_bms_reader alone: the reader thread with no HTTP request arriving,  *)
(* and with the thread always getting to run                               *)
(***************************************************************************)
NextOverkillLoop ==
    \/ (run_bms_reader /\ UNCHANGED OtherVars)
    \/ (ConnectOpen("reader") /\ UNCHANGED OtherVars)
    \/ (ConnectStore("reader") /\ UNCHANGED OtherVars)
    \/ (DisconnectDevice("reader") /\ UNCHANGED OtherVars)
    \/ (ReadCheck("reader") /\ UNCHANGED OtherVars)
    \/ (ReadWrite("reader") /\ UNCHANGED OtherVars)
    \/ (ReadWait("reader") /\ UNCHANGED OtherVars)
    \/ (UpdateStamp("reader") /\ UNCHANGED OtherVars)
    \/ (ConnectAllRight("reader") /\ UNCHANGED OtherVars)
    \/ (DisconnectAllRight("reader") /\ UNCHANGED OtherVars)
    \/ (RunAfterConnect /\ UNCHANGED OtherVars)
    \/ (WhileRunning /\ UNCHANGED OtherVars)
    \/ (LoopTrack /\ UNCHANGED OtherVars)
    \/ (LoopAfterRead /\ UNCHANGED OtherVars)
    \/ (LoopAfterDisconnect /\ UNCHANGED OtherVars)
    \/ (LoopAfterConnect /\ UNCHANGED OtherVars)
    \/ (ReaderFinally /\ UNCHANGED OtherVars)

SpecOverkillLoop ==
    InitOverkillOps /\ [][NextOverkillLoop]_vars /\ WF_vars(NextOverkillLoop)

\* a read or a connect of the track has just failed in the reader thread
TransportFailed(k) ==
    /\ thr["reader"].op \in {"read", "connect"} /\ thr["reader"].cpc = "ret"
    /\ thr["reader"].k = k
    /\ ~thr["reader"].ret

\* the reader thread begins a read or a connect for the track
CycleAttempted(k) ==
    /\ thr["reader"].op \in {"read", "connect"}
    /\ thr["reader"].cpc \in {"check", "open"}
    /\ thr["reader"].k = k

\* C17: the polling loop always proceeds to the next scheduled cycle: after a
\* transport failure on a track, with no shutdown requested, a later cycle
\* is eventually attempted for that track (as long as the bounded clock lets
\* the thread go on)
C17_NextCycleAttempted ==
    \A k \in Tracks :
        [](TransportFailed(k) => <>(CycleAttempted(k) \/ now >= MaxStamps))

\* C14: every read cycle started on a connected track issues the basic-info
\* command 0x03 and then the cell-voltage command 0x04; no cycle completes
\* with only one of them issued unless link loss aborted it
C14_BothCommandsIssued ==
    (Returned("caller", "read") /\ thr["caller"].ret) => thr["caller"].cmds = <<3, 4>>

\* in this step a disconnect_device returns that directly followed a
\* disconnect_device of the same track
SecondDisconnectReturns ==
    /\ thr["caller"].op = "disconnect" /\ thr["caller"].cpc = "close"
    /\ thr["caller"].again
    /\ thr'["caller"].cpc = "ret"

\* C12: disconnect is idempotent: a second call directly after a first one
\* leaves the handles, the connection status and the stored snapshot exactly
\* as the first call left them
C12_DisconnectIdempotent ==
    [][SecondDisconnectReturns =>
        UNCHANGED <<peripherals, delegates, links, connection_status, last_data>>]_vars

(***************************************************************************)
(* Reassembly: the transport delivers the chunks in order                  *)
(***************************************************************************)
InitReasm ==
    /\ InitClock
    /\ InitDelegate
    /\ InitDualIdle
    /\ InitSessionIdle
    /\ InitOverkillOff
    /\ fed = 0
    /\ \E f \in SampleFrames : \E k \in 1..(Len(f) - 1) :
            /\ sent = <<f>>
            /\ chunks = SplitAt(f, k)

\* the BLE library calls delegate.handleNotification(cHandle, data)
handleNotification ==
    /\ fed < Len(chunks)
    /\ LET r == HandleNotificationResult(partial_message, battery_data,
                                          processed, chunks[fed + 1], now) IN
            /\ partial_message' = r.partial
            /\ battery_data' = r.bd
            /\ processed' = r.done
    /\ fed' = fed + 1
    /\ now' = now + 1
    /\ UNCHANGED <<sent, chunks>>
    /\ UNCHANGED <<dualVars, sessVars, okVars>>

NextReasm == handleNotification

SpecReasm == InitReasm /\ [][NextReasm]_vars

(***************************************************************************)
(* Reassembly of longer feeds: one reply in one, two or three              *)
(* notifications, a handshake byte between two chunks, two replies one     *)
(* after the other                                                         *)
(***************************************************************************)
\* received_data of parse_bms_data.main(): dd03001d053500001a25215300072b0f00000000
SampleReply ==
    <<221, 3, 0, 29, 5, 53, 0, 0, 26, 37, 33, 83, 0, 7, 43, 15, 0, 0, 0, 0>>

\* what the device sends (frames) and the notifications that carry it (chunks);
\* the second frame added here is an 8-cell reply with cells of 3.293 V (0x0CDD)
\* and 1.000 V (0x03E8)
Feeds ==
    LET frames == SampleFrames \cup
            {SampleReply,
             ResponseFrame(4, CellPayload(<<3293, 1000, 3303, 3304, 3305, 3306, 3307, 3308>>))}
        RECURSIVE In20(_)
        \* a reply in notifications of at most 20 bytes (ATT MTU 23)
        In20(f) == IF Len(f) <= 20 THEN <<f>>
                   ELSE <<SubSeq(f, 1, 20)>> \o In20(SubSeq(f, 21, Len(f)))
    IN  {[frames |-> <<f>>, chunks |-> <<f>>] : f \in frames}
        \cup UNION {{[frames |-> <<f>>, chunks |-> SplitAt(f, k)] : k \in 1..(Len(f) - 1)}
                        : f \in frames}
        \cup UNION {{[frames |-> <<f>>,
                      chunks |-> <<SplitAt(f, k)[1], <<0>>, SplitAt(f, k)[2]>>]
                        : k \in 1..(Len(f) - 1)} : f \in frames}
        \cup UNION {UNION {{[frames |-> <<f>>,
                             chunks |-> <<SubSeq(f, 1, k), SubSeq(f, k + 1, m),
                                          SubSeq(f, m + 1, Len(f))>>]
                        : m \in (k + 1)..(Len(f) - 1)} : k \in 1..(Len(f) - 2)}
                        : f \in frames}
        \cup {[frames |-> <<f, g>>, chunks |-> In20(f) \o In20(g)] : f \in frames, g \in frames}
        \cup {[frames |-> <<f, g>>, chunks |-> <<f, g>>] : f \in frames, g \in frames}

InitFeed ==
    /\ InitClock
    /\ InitDelegate
    /\ InitDualIdle
    /\ InitSessionIdle
    /\ InitOverkillOff
    /\ fed = 0
    /\ \E x \in Feeds : sent = x.frames /\ chunks = x.chunks

SpecFeed == InitFeed /\ [][NextReasm]_vars

\* C1: a frame fed as two chunks is emitted exactly once, whole, whatever the
\* split point: once both chunks are delivered the process_bms_data calls are
\* exactly the one original frame.
C1_SplitFrameEmittedOnceWhole ==
    (Len(sent) = 1 /\ Len(chunks) = 2 /\ fed = 2) => processed = sent

\* C28: the partial buffer is empty after a frame was completed and emitted
\* and after a session reconnect, so bytes buffered before a link drop are
\* never combined with bytes received after the reconnect.
C28_BufferClearedOnReconnect ==
    [][/\ (Len(processed') > Len(processed)) => partial_message' = <<>>
       /\ (rd'.reconnects = rd.reconnects + 1) => partial_message' = <<>>]_vars

\* C22: a cell-voltages reply that carries fewer than 8 cells is valid: once
\* the 4-cell reply has been delivered, whole or in two chunks, its four
\* cells are the decoded cell voltages.
C22_PartialCellArrayDecoded ==
    (sent = <<CellFrame4>> /\ Len(chunks) <= 2 /\ fed = Len(chunks)) =>
        battery_data.cell_voltages = <<3301, 3302, 3303, 3304>>

\* C24 as stated: decoding the sample bytes as pack info yields a pack
\* voltage of 21.00 V (2100 hundredths of a volt).
C24_SampleVoltage21 ==
    (chunks = <<SampleReply>> /\ fed = 1) => battery_data.voltage = 2100

\* C24, amended: decoding the sample bytes as pack info, big-endian fields at
\* the documented offsets, yields a pack voltage of 13.33 V (0x0535 = 1333
\* hundredths of a volt), no current, and capacities 66.93 Ah of 85.31 Ah.
C24_SampleVoltage ==
    (chunks = <<SampleReply>> /\ fed = 1) =>
        /\ battery_data.voltage = 1333
        /\ battery_data.current = 0
        /\ battery_data.remaining_capacity = 6693
        /\ battery_data.total_capacity = 8531

\* C24 witness: the sample bytes were delivered and decoded as pack info
C24_Witness ==
    /\ chunks = <<SampleReply>> /\ fed = 1
    /\ processed = <<SampleReply>>
    /\ battery_data.connection_status = "connected"

\* C25: a frame is emitted exactly when the accumulated bytes first meet the
\* total length the header declares (4 header bytes, the declared payload,
\* checksum and trailer), never earlier, whatever the number of chunks; chunks
\* are appended, so a reply delivered completely is emitted as that reply and
\* the buffer is empty again.
C25_EmittedAtDeclaredLength ==
    /\ \A i \in 1..Len(processed) :
            LET p == processed[i] IN
            Len(p) >= 4 /\ p[1] = 221 /\ Len(p) >= p[4] + 7
    /\ (Len(sent) = 1 /\ fed = Len(chunks) /\ sent[1] # SampleReply
            /\ \A j \in 1..Len(chunks) : chunks[j] # <<0>>) =>
            (processed = sent /\ partial_message = <<>>)

\* C26: the buffer is bounded by the largest valid frame: nothing longer than
\* the longest reply of the protocol is ever emitted as a frame.
C26_OversizedDiscarded ==
    \A i \in 1..Len(processed) :
        \E x \in Feeds : Len(x.frames) = 1 /\ Len(processed[i]) <= Len(x.frames[1])

\* C27: a notification of the single byte 0x00 emits no frame and leaves the
\* state and the partial buffer as they were: with a 0x00 between the two
\* chunks of a frame, the delegate is after the 0x00 where it was after the
\* first chunk, and after the second chunk where the two chunks alone lead.
C27_HandshakeIgnored ==
    (Len(chunks) = 3 /\ chunks[2] = <<0>> /\ fed >= 2) =>
        LET r1 == HandleNotificationResult(<<>>, NewBatteryData, <<>>, chunks[1], 1)
            r2 == HandleNotificationResult(r1.partial, r1.bd, r1.done, chunks[3], 3)
            r  == IF fed = 2 THEN r1 ELSE r2 IN
        /\ partial_message = r.partial
        /\ battery_data = r.bd
        /\ processed = r.done

\* C27 witness: the two chunks of a frame with a 0x00 between them were
\* delivered and the frame was emitted whole
C27_Witness ==
    /\ Len(chunks) = 3 /\ chunks[2] = <<0>> /\ fed = 3
    /\ processed = sent
    /\ partial_message = <<>>

\* C29: a frame is decoded as pack info only if the byte after the 0xDD
\* header is 0x03: the delegate holds pack info only after a frame with that
\* command code was emitted.
C29_DecoderByCommandByte ==
    battery_data.connection_status = "connected" =>
        \E i \in 1..Len(processed) :
            Len(processed[i]) >= 2 /\ processed[i][1] = 221 /\ processed[i][2] = 3

\* C30: no emitted frame is built from bytes of two different replies: every
\* emitted frame is a run of consecutive bytes of one reply.
C30_NoCrossResponseFrame ==
    \A i \in 1..Len(processed) :
        \E j \in 1..Len(sent) :
            \E o \in 0..(Len(sent[j]) - Len(processed[i])) :
                processed[i] = SubSeq(sent[j], o + 1, o + Len(processed[i]))

=============================================================================
